---- MODULE Spec2Model ----
(***************************************************************************)
(* Model of the three GitHub statistics scripts                           *)
(*   get_repo_prs.py         (GitHubPRAnalyzer,     script "prs")          *)
(*   get_pr_file_changes.py  (GitHubPRFileAnalyzer, script "files")        *)
(*   get_repo_loc_stats.py   (GitHubLOCAnalyzer,    script "loc")          *)
(* One run of one script is one behaviour: main() parses the start date,   *)
(* the list endpoint is fetched page by page (one action per HTTP request, *)
(* the per-item filter loop of the page included), the per-item detail is  *)
(* resolved (one action per HTTP request), the result object is built, the *)
(* summary printed and the process exits.                                  *)
(***************************************************************************)
EXTENDS Integers, Sequences, FiniteSets, TLC

\* ------------------------------------------------------------------ bounds

\* Longest list of freely chosen records the remote serves on a short page.
MaxItems == 3
\* Most full pages (of per_page records) the remote serves before the last one.
MaxFullPages == 3
\* Longest login of the runs that range over logins.
MaxLoginLen == 2

\* ------------------------------------------------------- program constants

\* per_page = 100, the page size of every paginated request.
per_page == 100

\* ------------------------------------------------------------ Python values

\* None, and a value that may be None: <<>> is None, <<v>> is the value v.
None == <<>>
Some(v) == <<v>>
\* Python truthiness of an optional string (None is falsy)
Truthy(x) == x /= None
\* and of an optional integer (None is falsy; 0 is falsy too).
TruthyInt(x) == x /= None /\ x[1] /= 0

\* str.lower() on one character of a login.
LowerChar(c) ==
    CASE c = "A" -> "a"
      [] c = "B" -> "b"
      [] OTHER -> c

\* str.lower(): a string is its sequence of characters.
Lower(s) == [i \in 1..Len(s) |-> LowerChar(s[i])]

\* ------------------------------------------------------------------- dates

IsLeap(y) == (y % 4 = 0 /\ y % 100 /= 0) \/ y % 400 = 0

DaysInMonth(y, m) ==
    CASE m \in {4, 6, 9, 11} -> 30
      [] m = 2 -> IF IsLeap(y) THEN 29 ELSE 28
      [] OTHER -> 31

\* A date string is the sequence of the numbers between its dashes; a string
\* that is not of the shape Y-M-D is the empty sequence.
\* datetime.strptime(start_date, "%Y-%m-%d") raises ValueError unless:
StrptimeOk(start_date) ==
    /\ Len(start_date) = 3
    /\ start_date[1] \in 1..9999
    /\ start_date[2] \in 1..12
    /\ start_date[3] \in 1..DaysInMonth(start_date[1], start_date[2])

\* strptime, replace(tzinfo=timezone.utc), isoformat():
\* "YYYY-MM-DDT00:00:00+00:00".
IsoFormatOfStartDate(start_date) ==
    [date |-> start_date, time |-> <<0, 0, 0>>, tz |-> "+00:00"]

\* s.replace('Z', '+00:00')
ReplaceZ(iso) == [iso EXCEPT !.tz = IF @ = "Z" THEN "+00:00" ELSE @]

\* datetime.fromisoformat of a string with a UTC offset: an aware datetime.
\* The only offset the strings carry after ReplaceZ is +00:00.
FromIsoFormat(iso) ==
    [year |-> iso.date[1], month |-> iso.date[2], day |-> iso.date[3],
     hour |-> iso.time[1], minute |-> iso.time[2], second |-> iso.time[3],
     utcoffset |-> IF iso.tz = "+00:00" THEN 0 ELSE -1]

\* a >= b on two aware datetimes of the same offset: field by field.
DatetimeGE(a, b) ==
    LET ta == <<a.year, a.month, a.day, a.hour, a.minute, a.second>>
        tb == <<b.year, b.month, b.day, b.hour, b.minute, b.second>>
        firstDiff == {i \in 1..6 : ta[i] /= tb[i] /\ \A j \in 1..(i-1) : ta[j] = tb[j]}
    IN  \/ firstDiff = {}
        \/ \E i \in firstDiff : ta[i] > tb[i]

\* ------------------------------------------------------ the remote's data
\* What the GitHub REST API holds for the repository of the run.  An item of
\* a list endpoint is [rec |-> the record the list endpoint serves,
\* detail |-> what the per-item endpoint answers for it].

SeqsUpTo(S, n) == UNION {[1..k -> S] : k \in 0..n}
Rep(x, n) == [i \in 1..n |-> x]

\* "2025-01-01T00:00:00Z"
IsoZ(date, time) == [date |-> date, time |-> time, tz |-> "Z"]

LastOf2024 == IsoZ(<<2024, 12, 31>>, <<23, 59, 59>>)
FirstOf2025 == IsoZ(<<2025, 1, 1>>, <<0, 0, 0>>)
SecondOf2025 == IsoZ(<<2025, 1, 2>>, <<0, 0, 0>>)
Times == {LastOf2024, FirstOf2025, SecondOf2025}

\* The --start-date values of a run: valid dates, dates strptime refuses
\* (29 February of a common year, month 13) and a string of another shape.
ValidStartDates == {<<2025, 1, 1>>, <<2025, 1, 2>>}
InvalidStartDates == {<<2025, 2, 29>>, <<2025, 13, 1>>, <<>>}
StartDates == ValidStartDates \cup InvalidStartDates

\* The author argument of a run and the logins the remote's items carry.
Authors == {<<"a", "B">>}
ItemLogins == {<<"A", "b">>, <<"b", "a">>}

\* One file record of GET /pulls/{n}/files.
FileRec(filename, status, additions, deletions) ==
    [filename |-> filename, status |-> status, additions |-> additions,
     deletions |-> deletions, changes |-> additions + deletions,
     patch |-> Some("@@"),
     previous_filename |-> IF status = "renamed" THEN Some(<<"o", ".", "p", "y">>) ELSE None]

A_py == FileRec(<<"a", ".", "p", "y">>, "modified", 10, 2)
README == FileRec(<<"R", "E", "A", "D", "M", "E">>, "added", 1, 0)

\* What the files endpoint answers for a pull request: the status of every
\* page request and the whole file list.
FilesOk(files) == [status |-> 200, files |-> files]
FilesFail == [status |-> 500, files |-> <<>>]

\* One pull request of GET /pulls (number is set when the list is built).
PR(login, created_at, merged, draft, detail) ==
    [rec |-> [number |-> 0, login |-> login, created_at |-> created_at,
              merged_at |-> IF merged THEN Some(created_at) ELSE None,
              draft |-> draft,
              state |-> IF merged THEN "closed" ELSE "open"],
     detail |-> detail]

BasePRKinds ==
    {PR(l, t, TRUE, FALSE, FilesOk(<<A_py>>)) : l \in ItemLogins, t \in Times}
UnmergedPR == PR(<<"A", "b">>, SecondOf2025, FALSE, FALSE, FilesOk(<<README>>))
DraftPR == PR(<<"A", "b">>, SecondOf2025, FALSE, TRUE, FilesOk(<<README>>))
NoFilesPR == PR(<<"A", "b">>, SecondOf2025, TRUE, FALSE, FilesOk(<<>>))
FilesFailPR == PR(<<"A", "b">>, SecondOf2025, TRUE, FALSE, FilesFail)
\* A pull request of the author below the bound that was never merged.
OldUnmergedPR == PR(<<"A", "b">>, LastOf2024, FALSE, FALSE, FilesOk(<<README>>))
\* A pull request of the author that was closed without being merged.
ClosedUnmergedPR ==
    [UnmergedPR EXCEPT !.rec.state = "closed"]
\* Pull requests whose file list takes several pages: 2 full pages and 37
\* records, and exactly 2 full pages.
ManyFilesPR ==
    PR(<<"A", "b">>, SecondOf2025, TRUE, FALSE,
       FilesOk(Rep(A_py, 2 * per_page) \o Rep(README, 37)))
FullFilesPR ==
    PR(<<"A", "b">>, SecondOf2025, TRUE, FALSE, FilesOk(Rep(A_py, 2 * per_page)))
OtherRecentPR == PR(<<"b", "a">>, SecondOf2025, TRUE, FALSE, FilesOk(<<A_py>>))

\* One commit of GET /commits; detail is what GET /commits/{sha} answers.
Commit(login, date, detail) ==
    [rec |-> [number |-> 0, login |-> login, created_at |-> date],
     detail |-> detail]
StatsOk(additions, deletions) ==
    [status |-> 200, additions |-> additions, deletions |-> deletions]
StatsFail == [status |-> 500, additions |-> 7, deletions |-> 7]

CommitKinds ==
    {Commit(<<"A", "b">>, SecondOf2025, StatsOk(3, 1)),
     Commit(<<"A", "b">>, SecondOf2025, StatsFail),
     Commit(<<"b", "a">>, FirstOf2025, StatsOk(0, 2)),
     Commit(<<"A", "b">>, LastOf2024, StatsOk(5, 0))}

\* The identifiers (PR number, commit SHA) of a list of n items, most recent
\* first: n, n-1, ..., 1.
Numbered(kinds) ==
    [i \in 1..Len(kinds) |->
        [kinds[i] EXCEPT !.rec.number = Len(kinds) - i + 1]]

\* Short lists: every sequence of at most MaxItems items, served on one page.
ShortLists(kinds) == SeqsUpTo(kinds, MaxItems)

\* Two-page lists: a full first page (a head, then fill items) and a tail.
TwoPageLists(heads, fill, tails) ==
    {h \o Rep(fill, per_page - Len(h)) \o t : h \in heads, t \in tails}

\* Long lists: 1..MaxFullPages full pages of fill items, then a tail.
LongLists(fill, tails) ==
    {Rep(fill, per_page * f) \o t : f \in 1..MaxFullPages, t \in tails}

PRLists ==
    ShortLists(BasePRKinds)
    \cup SeqsUpTo({UnmergedPR, DraftPR, NoFilesPR, ClosedUnmergedPR}, MaxItems - 1)
    \cup TwoPageLists({<<>>, <<UnmergedPR>>}, OtherRecentPR, SeqsUpTo(BasePRKinds, 2))
    \cup LongLists(OtherRecentPR, {<<>>, <<NoFilesPR>>, Rep(OtherRecentPR, 37)})

PRFileLists ==
    ShortLists(BasePRKinds)
    \cup SeqsUpTo({UnmergedPR, DraftPR, NoFilesPR, FilesFailPR, ManyFilesPR,
                   OldUnmergedPR}, MaxItems - 1)
    \cup TwoPageLists({<<>>, <<NoFilesPR>>}, OtherRecentPR, SeqsUpTo(BasePRKinds, 2))
    \cup LongLists(OtherRecentPR, {<<>>, <<FullFilesPR>>, Rep(OtherRecentPR, 37)})

CommitLists ==
    ShortLists(CommitKinds)
    \cup LongLists(Commit(<<"A", "b">>, SecondOf2025, StatsOk(3, 1)),
                   {<<>>, <<Commit(<<"A", "b">>, SecondOf2025, StatsFail)>>,
                    Rep(Commit(<<"A", "b">>, SecondOf2025, StatsOk(0, 0)), 37)})

\* ------------------------------------------------------------------ state

VARIABLES
    script,          \* which script runs: "prs", "files" or "loc"
    args,            \* the command line: author, start_date, merged_only, ...
    remote,          \* the items the list endpoint holds, in the order served
    pc,              \* where the run is
    since_date,      \* analyze_*: the ISO string of the lower bound
    page,            \* the fetcher's page counter
    pull_requests,   \* get_pull_requests: the list accumulated so far
    commits,         \* get_commits: the list accumulated so far
    fetched,         \* what the list fetcher returned to analyze_*
    requests,        \* every HTTP request issued so far, in order
    examined,        \* positions (in remote) whose author was compared, in order
    date_checked,    \* positions (in remote) whose date was compared, in order
    idx,             \* analyze_*: the index i of the item being resolved
    files,           \* get_pr_files: the file records accumulated so far
    files_page,      \* get_pr_files: its page counter
    totals,          \* analyze_*: total_files_changed, total_additions, total_deletions
    pr_totals,       \* analyze_pr_file_changes: pr_additions, pr_deletions (None: unbound)
    file_extension_stats, \* analyze_pr_file_changes: the dict, in insertion order
    details,         \* pr_details / pr_file_details / commit_details
    results,         \* what analyze_* returned to main
    output,          \* what the run printed, in order
    sorted_commits,  \* print_summary of the commit script: its ranking
    exit_status      \* the exit status of the process (None while it runs)

vars == <<script, args, remote, pc, since_date, page, pull_requests, commits,
          fetched, requests, examined, date_checked, idx, files, files_page,
          totals, pr_totals, file_extension_stats, details, results, output,
          sorted_commits, exit_status>>

inputs == <<script, args, remote>>
fetchVars == <<page, pull_requests, commits, fetched, examined, date_checked>>
detailVars == <<idx, files, files_page, totals, pr_totals, file_extension_stats,
                details>>

\* The status codes a list request may come back with.
Statuses == {200, 404, 403, 500}

Min(a, b) == IF a < b THEN a ELSE b

\* response.json() of page p of a list endpoint: the records of the remote's
\* items number (p-1)*per_page+1 .. p*per_page.
PageOf(list, p) ==
    LET lo == (p - 1) * per_page + 1
        hi == Min(p * per_page, Len(list))
    IN  [k \in 1..(IF hi >= lo THEN hi - lo + 1 ELSE 0) |-> list[lo + k - 1].rec]

\* One logged request: the endpoint, the page asked for, the item it is about
\* (0: none) and the status it came back with.
Request(endpoint, p, id) ==
    [endpoint |-> endpoint, page |-> p, id |-> id, status |-> 200]

\* ------------------------------------------- get_repo_prs.get_pull_requests

\* A variant of the author test that compares the two strings as they are.
AuthorMatches_CaseSensitive(login, author) == login = author

\* pr['user']['login'].lower() == author.lower()
AuthorMatches(login, author) == Lower(login) = Lower(author)

\* created_at >= since_datetime, both parsed with fromisoformat after
\* replace('Z', '+00:00').
CreatedSince(created_at, since) ==
    DatetimeGE(FromIsoFormat(ReplaceZ(created_at)), FromIsoFormat(ReplaceZ(since)))

\* The state of the for loop over one page: st.filtered is filtered_prs,
\* st.returned says that the loop hit "return pull_requests", st.examined and
\* st.date_checked are the indices (within the page) whose author and whose
\* date were compared.
ScanStart ==
    [filtered |-> <<>>, returned |-> FALSE, examined |-> <<>>, date_checked |-> <<>>]

\* A variant of the loop body that compares the date of every item before its
\* author, and returns at any item below the bound.
PRs_ScanItem_DateFirst(st, k, page_prs, a) ==
    LET pr == page_prs[k]
        seen == [st EXCEPT !.examined = Append(@, k),
                           !.date_checked = Append(@, k)]
    IN  IF ~CreatedSince(pr.created_at, a.since_date)
        THEN [seen EXCEPT !.returned = TRUE]
        ELSE IF AuthorMatches(pr.login, a.author)
        THEN [seen EXCEPT !.filtered = Append(@, pr)]
        ELSE seen

\* The body of the for loop (lines 108-119) for item k of the page.
PRs_ScanItem(st, k, page_prs, a) ==
    LET pr == page_prs[k]
        seen == [st EXCEPT !.examined = Append(@, k)]
    IN  IF AuthorMatches(pr.login, a.author)
        THEN IF CreatedSince(pr.created_at, a.since_date)
             THEN [seen EXCEPT !.date_checked = Append(@, k),
                               !.filtered = Append(@, pr)]
             ELSE [seen EXCEPT !.date_checked = Append(@, k),
                               !.returned = TRUE]
        ELSE seen

\* The for loop over the items lo..hi of the page, in order, left as soon as
\* an iteration returns.  (The state after the first half is drawn from a
\* one-element set, which makes TLC compute it once.)
RECURSIVE PRs_ScanRange(_, _, _, _, _)
PRs_ScanRange(st, lo, hi, page_prs, a) ==
    IF st.returned \/ lo > hi THEN st
    ELSE IF lo = hi THEN PRs_ScanItem(st, lo, page_prs, a)
    ELSE LET mid == (lo + hi) \div 2
         IN  CHOOSE r \in {PRs_ScanRange(left, mid + 1, hi, page_prs, a) :
                            left \in {PRs_ScanRange(st, lo, mid, page_prs, a)}} : TRUE

PRs_Scan(page_prs, a) == PRs_ScanRange(ScanStart, 1, Len(page_prs), page_prs, a)

\* ---------------------------------- get_pr_file_changes.get_pull_requests

\* A variant of the loop body that keeps the items of the author whatever
\* their date.
Files_ScanItem_NoDate(st, k, page_prs, a) ==
    LET pr == page_prs[k]
        seen == [st EXCEPT !.examined = Append(@, k)]
    IN  IF AuthorMatches(pr.login, a.author)
        THEN IF (a.merged_only /\ ~Truthy(pr.merged_at)) \/ (~a.include_draft /\ pr.draft)
             THEN seen
             ELSE [seen EXCEPT !.filtered = Append(@, pr)]
        ELSE seen

\* A variant of the loop body that applies the secondary filters before the
\* date test.
Files_ScanItem_FilterFirst(st, k, page_prs, a) ==
    LET pr == page_prs[k]
        seen == [st EXCEPT !.examined = Append(@, k)]
    IN  IF AuthorMatches(pr.login, a.author)
        THEN IF (a.merged_only /\ ~Truthy(pr.merged_at)) \/ (~a.include_draft /\ pr.draft)
             THEN seen
             ELSE IF CreatedSince(pr.created_at, a.since_date)
             THEN [seen EXCEPT !.date_checked = Append(@, k),
                               !.filtered = Append(@, pr)]
             ELSE [seen EXCEPT !.date_checked = Append(@, k),
                               !.returned = TRUE]
        ELSE seen

\* The body of the for loop (lines 112-131) for item k of the page.
Files_ScanItem(st, k, page_prs, a) ==
    LET pr == page_prs[k]
        seen == [st EXCEPT !.examined = Append(@, k)]
    IN  IF AuthorMatches(pr.login, a.author)
        THEN IF CreatedSince(pr.created_at, a.since_date)
             THEN LET dated == [seen EXCEPT !.date_checked = Append(@, k)]
                  IN  IF a.merged_only /\ ~Truthy(pr.merged_at)
                      THEN dated
                      ELSE IF ~a.include_draft /\ pr.draft
                      THEN dated
                      ELSE [dated EXCEPT !.filtered = Append(@, pr)]
             ELSE [seen EXCEPT !.date_checked = Append(@, k),
                               !.returned = TRUE]
        ELSE seen

RECURSIVE Files_ScanRange(_, _, _, _, _)
Files_ScanRange(st, lo, hi, page_prs, a) ==
    IF st.returned \/ lo > hi THEN st
    ELSE IF lo = hi THEN Files_ScanItem(st, lo, page_prs, a)
    ELSE LET mid == (lo + hi) \div 2
         IN  CHOOSE r \in {Files_ScanRange(left, mid + 1, hi, page_prs, a) :
                            left \in {Files_ScanRange(st, lo, mid, page_prs, a)}} : TRUE

Files_Scan(page_prs, a) == Files_ScanRange(ScanStart, 1, Len(page_prs), page_prs, a)

\* Variants of the page-size check: one that never ends the fetch, and one
\* that ends it at a full page too.
ShortPage_Never(page_items) == FALSE
ShortPage_OrFull(page_items) == Len(page_items) <= per_page

\* The page-size check that ends a paginated fetch: len(page) < per_page.
ShortPage(page_items) == Len(page_items) < per_page

\* Variants of the error branches that return what was accumulated.
PRs_ErrorReturn_Partial(accumulated) == accumulated
LOC_ErrorReturn_Partial(accumulated) == accumulated

\* The value a list fetcher returns from its three error branches (404, 403,
\* any other non-200 status): return [], whatever was accumulated.
PRs_ErrorReturn(accumulated) == <<>>
Files_ErrorReturn(accumulated) == <<>>
LOC_ErrorReturn(accumulated) == <<>>

\* The parameters the fetcher is called with.
FetchArgs ==
    [author |-> args.author, since_date |-> since_date,
     merged_only |-> args.merged_only, include_draft |-> args.include_draft]

\* The global positions of the indices a scan logged on page p.
Positions(p, ks) == [j \in 1..Len(ks) |-> (p - 1) * per_page + ks[j]]

\* One iteration of get_pull_requests' while loop (lines 75-126): the request
\* for page `page`, the status checks, the filter loop and the page-size check.
PRs_FetchPage ==
    /\ script = "prs"
    /\ pc = "list"
    /\ \E status \in Statuses :
        /\ requests' = Append(requests, [Request("pulls", page, 0) EXCEPT !.status = status])
        /\ IF status /= 200
           THEN \* 404, 403, other: return []
                /\ fetched' = PRs_ErrorReturn(pull_requests)
                /\ pc' = "fetched"
                /\ UNCHANGED <<page, pull_requests, examined, date_checked>>
           ELSE \E page_prs \in {PageOf(remote, page)} :
                \E sc \in {PRs_Scan(page_prs, FetchArgs)} :
                    IF page_prs = <<>>
                    THEN \* break; return pull_requests
                         /\ fetched' = pull_requests
                         /\ pc' = "fetched"
                         /\ UNCHANGED <<page, pull_requests, examined, date_checked>>
                    ELSE /\ examined' = examined \o Positions(page, sc.examined)
                         /\ date_checked' = date_checked \o Positions(page, sc.date_checked)
                         /\ IF sc.returned
                            THEN \* return pull_requests, from inside the for loop
                                 /\ fetched' = pull_requests
                                 /\ pc' = "fetched"
                                 /\ UNCHANGED <<page, pull_requests>>
                            ELSE /\ pull_requests' = pull_requests \o sc.filtered
                                 /\ page' = page + 1
                                 /\ IF ShortPage(page_prs)
                                    THEN /\ fetched' = pull_requests'
                                         /\ pc' = "fetched"
                                    ELSE /\ pc' = "list"
                                         /\ UNCHANGED fetched
    /\ UNCHANGED <<inputs, since_date, commits, detailVars, results, output, sorted_commits, exit_status>>

\* The same loop of get_pr_file_changes.get_pull_requests (lines 79-138).
Files_FetchPage ==
    /\ script = "files"
    /\ pc = "list"
    /\ \E status \in Statuses :
        /\ requests' = Append(requests, [Request("pulls", page, 0) EXCEPT !.status = status])
        /\ IF status /= 200
           THEN /\ fetched' = Files_ErrorReturn(pull_requests)
                /\ pc' = "fetched"
                /\ UNCHANGED <<page, pull_requests, examined, date_checked>>
           ELSE \E page_prs \in {PageOf(remote, page)} :
                \E sc \in {Files_Scan(page_prs, FetchArgs)} :
                    IF page_prs = <<>>
                    THEN /\ fetched' = pull_requests
                         /\ pc' = "fetched"
                         /\ UNCHANGED <<page, pull_requests, examined, date_checked>>
                    ELSE /\ examined' = examined \o Positions(page, sc.examined)
                         /\ date_checked' = date_checked \o Positions(page, sc.date_checked)
                         /\ IF sc.returned
                            THEN /\ fetched' = pull_requests
                                 /\ pc' = "fetched"
                                 /\ UNCHANGED <<page, pull_requests>>
                            ELSE /\ pull_requests' = pull_requests \o sc.filtered
                                 /\ page' = page + 1
                                 /\ IF ShortPage(page_prs)
                                    THEN /\ fetched' = pull_requests'
                                         /\ pc' = "fetched"
                                    ELSE /\ pc' = "list"
                                         /\ UNCHANGED fetched
    /\ UNCHANGED <<inputs, since_date, commits, detailVars, results, output, sorted_commits, exit_status>>

\* One iteration of get_commits' while loop (lines 55-86).  author and since
\* travel as query parameters; the records of the page are taken as served.
LOC_FetchPage ==
    /\ script = "loc"
    /\ pc = "list"
    /\ \E status \in Statuses :
        /\ requests' = Append(requests, [Request("commits", page, 0) EXCEPT !.status = status])
        /\ IF status /= 200
           THEN /\ fetched' = LOC_ErrorReturn(commits)
                /\ pc' = "fetched"
                /\ UNCHANGED <<page, commits>>
           ELSE LET page_commits == PageOf(remote, page)
                IN  IF page_commits = <<>>
                    THEN /\ fetched' = commits
                         /\ pc' = "fetched"
                         /\ UNCHANGED <<page, commits>>
                    ELSE /\ commits' = commits \o page_commits
                         /\ page' = page + 1
                         /\ IF ShortPage(page_commits)
                            THEN /\ fetched' = commits'
                                 /\ pc' = "fetched"
                            ELSE /\ pc' = "list"
                                 /\ UNCHANGED fetched
    /\ UNCHANGED <<inputs, since_date, pull_requests, examined, date_checked,
                   detailVars, results, output, sorted_commits, exit_status>>


\* ------------------------------------------------------------- analyze_*

\* The empty dict a failed analysis returns, and the test `if results:`.
EmptyDict == <<>>
IsEmptyDict(d) == DOMAIN d = {}

\* sum(...) over the elements lo..hi of a list, and over the whole list.
RECURSIVE SumRange(_, _, _)
SumRange(s, lo, hi) ==
    IF lo > hi THEN 0
    ELSE IF lo = hi THEN s[lo]
    ELSE LET mid == (lo + hi) \div 2
         IN  SumRange(s, lo, mid) + SumRange(s, mid + 1, hi)

SumSeq(s) == SumRange(s, 1, Len(s))

\* A variant of the sort that leaves the list as it is.
SortDesc_Unsorted(keys, s) == s

\* list.sort(key=..., reverse=True) / sorted(..., reverse=True): stable, the
\* element of rank r is the one with r-1 elements before it in the result.
\* (The ranks are computed once, as a tuple.)
SortDesc(keys, s) ==
    LET n == Len(s)
        Rank(i) == 1 + Cardinality({j \in 1..n :
                        keys[j] > keys[i] \/ (keys[j] = keys[i] /\ j < i)})
    IN  CHOOSE sorted \in
            {[r \in 1..n |-> s[CHOOSE i \in 1..n : ranks[i] = r]] :
                ranks \in {[i \in 1..n |-> Rank(i)] \o <<>>}} : TRUE

\* The try block that opens analyze_repo_prs, analyze_pr_file_changes and
\* analyze_repo_loc, and the call of the list fetcher that follows it: an
\* unparsable start date returns {} before any request.
StartAnalysis(s) ==
    /\ script = s
    /\ pc = "main"
    /\ IF StrptimeOk(args.start_date)
       THEN /\ since_date' = IsoFormatOfStartDate(args.start_date)
            /\ page' = 1
            /\ pc' = "list"
            /\ UNCHANGED <<results, output>>
       ELSE /\ results' = EmptyDict
            /\ output' = Append(output, "invalid_date")
            /\ pc' = "report"
            /\ UNCHANGED <<since_date, page>>
    /\ UNCHANGED <<inputs, pull_requests, commits, fetched, requests, examined,
                   date_checked, detailVars, sorted_commits,
                   exit_status>>

PRs_AnalyzeStart == StartAnalysis("prs")
Files_AnalyzeStart == StartAnalysis("files")
LOC_AnalyzeStart == StartAnalysis("loc")

\* analyze_repo_prs after get_pull_requests returned (lines 185-261): the
\* state counters, pr_details and its sort.  No request is issued.
PRs_Info(pr) ==
    [number |-> pr.number, state |-> pr.state, draft |-> pr.draft,
     created_at |-> pr.created_at, merged_at |-> pr.merged_at]

\* A variant that counts every closed pull request as merged.
PRs_CountsAsMerged_AnyClosed(pr) == pr.state = "closed"

\* Lines 213-216: merged_count is incremented in the `closed` branch only,
\* and only when merged_at is set.
PRs_CountsAsMerged(pr) == pr.state = "closed" /\ Truthy(pr.merged_at)

PRs_Results(prs) ==
    LET n == Len(prs)
        pr_details == [i \in 1..n |-> PRs_Info(prs[i])]
    IN  [author |-> args.author,
         start_date |-> args.start_date,
         total_prs |-> n,
         open_prs |-> Cardinality({i \in 1..n : prs[i].state = "open"}),
         closed_prs |-> Cardinality({i \in 1..n : prs[i].state = "closed"}),
         merged_prs |-> Cardinality({i \in 1..n : PRs_CountsAsMerged(prs[i])}),
         draft_prs |-> Cardinality({i \in 1..n : prs[i].draft}),
         pull_requests |-> SortDesc([i \in 1..n |-> pr_details[i].number], pr_details)]

PRs_Analyze ==
    /\ script = "prs"
    /\ pc = "fetched"
    /\ results' = PRs_Results(fetched)
    /\ details' = results'.pull_requests
    /\ pc' = "report"
    /\ UNCHANGED <<inputs, since_date, fetchVars, requests, idx, files, files_page,
                   totals, pr_totals, file_extension_stats, output, sorted_commits, exit_status>>

\* ------------------------------------------------ analyze_pr_file_changes

\* The result returned when get_pull_requests found nothing (lines 257-265).
Files_EmptyResults ==
    [author |-> args.author, start_date |-> args.start_date,
     total_prs |-> 0, pull_requests |-> <<>>]

\* prs[:limit]
Prefix(s, n) == SubSeq(s, 1, Min(n, Len(s)))

\* Lines 257-278: the empty test, the limit and the initial totals.
Files_AnalyzeBegin ==
    /\ script = "files"
    /\ pc = "fetched"
    /\ IF fetched = <<>>
       THEN /\ results' = Files_EmptyResults
            /\ pc' = "report"
            /\ UNCHANGED <<fetched, idx, files, files_page, totals, pr_totals,
                           file_extension_stats, details>>
       ELSE /\ fetched' = IF TruthyInt(args.limit)
                          THEN Prefix(fetched, args.limit[1]) ELSE fetched
            /\ details' = <<>>
            /\ totals' = [files_changed |-> 0, additions |-> 0, deletions |-> 0]
            /\ pr_totals' = None
            /\ file_extension_stats' = <<>>
            /\ idx' = 1
            /\ files' = <<>>
            /\ files_page' = 1
            /\ pc' = "files"
            /\ UNCHANGED results
    /\ UNCHANGED <<inputs, since_date, page, pull_requests, commits, requests,
                   examined, date_checked, output, sorted_commits, exit_status>>

\* What the per-item endpoint of the remote answers for identifier n.
RemoteDetail(n) ==
    LET k == CHOOSE k \in 1..Len(remote) : remote[k].rec.number = n
    IN  remote[k].detail

\* A variant that copies the patch text whether it was asked for or not.
FileInfo_AlwaysPatch(file, include_patch) ==
    [filename |-> file.filename, status |-> file.status,
     additions |-> file.additions, deletions |-> file.deletions,
     changes |-> file.changes,
     patch |-> file.patch,
     previous_filename |-> IF file.status = "renamed"
                           THEN file.previous_filename ELSE None]

\* get_pr_files, lines 183-203: the file_info built from one served record.
FileInfo(file, include_patch) ==
    [filename |-> file.filename, status |-> file.status,
     additions |-> file.additions, deletions |-> file.deletions,
     changes |-> file.changes,
     patch |-> IF include_patch THEN file.patch ELSE None,
     previous_filename |-> IF file.status = "renamed"
                           THEN file.previous_filename ELSE None]

\* os.path.splitext(filename)[1]: the text from the last dot of the last path
\* component on, the dot included; "" when that component has no dot or only
\* leading dots.
Splitext(filename) ==
    LET n == Len(filename)
        Last(c) == IF \E i \in 1..n : filename[i] = c
                   THEN CHOOSE i \in 1..n :
                            filename[i] = c /\ \A j \in (i+1)..n : filename[j] /= c
                   ELSE 0
        sep == Last("/")
        dot == Last(".")
    IN  IF dot > sep /\ \E i \in (sep+1)..(dot-1) : filename[i] /= "."
        THEN SubSeq(filename, dot, n)
        ELSE <<>>

\* A variant that takes the text from the last dot of the whole filename on.
ExtOf_LastDot(filename) ==
    IF \E i \in 1..Len(filename) : filename[i] = "."
    THEN SubSeq(filename,
                CHOOSE i \in 1..Len(filename) :
                    filename[i] = "." /\ \A j \in (i + 1)..Len(filename) : filename[j] /= ".",
                Len(filename))
    ELSE <<"no_extension">>

\* ext = os.path.splitext(file['filename'])[1] or 'no_extension'
ExtOf(filename) ==
    IF Splitext(filename) = <<>> THEN <<"no_extension">> ELSE Splitext(filename)

\* Lines 296-306 for one file: file_extension_stats is the dict as the
\* sequence of its entries in insertion order.
AddToExtStats(stats, file) ==
    LET ext == ExtOf(file.filename)
        base == IF \E k \in 1..Len(stats) : stats[k].ext = ext
                THEN stats
                ELSE Append(stats, [ext |-> ext, count |-> 0,
                                    additions |-> 0, deletions |-> 0])
        at == CHOOSE k \in 1..Len(base) : base[k].ext = ext
    IN  [base EXCEPT ![at].count = @ + 1,
                     ![at].additions = @ + file.additions,
                     ![at].deletions = @ + file.deletions]

\* The for loop of lines 296-306 over the files lo..hi, in order.
RECURSIVE ExtStatsRange(_, _, _, _)
ExtStatsRange(stats, fl, lo, hi) ==
    IF lo > hi THEN stats
    ELSE IF lo = hi THEN AddToExtStats(stats, fl[lo])
    ELSE LET mid == (lo + hi) \div 2
         IN  \* (the one-element set makes TLC compute the first half once)
             CHOOSE r \in {ExtStatsRange(left, fl, mid + 1, hi) :
                            left \in {ExtStatsRange(stats, fl, lo, mid)}} : TRUE

ExtStatsOver(stats, fl) == ExtStatsRange(stats, fl, 1, Len(fl))

\* Lines 308-323: pr_info.  pt is (pr_additions, pr_deletions).
Files_Info(pr, fl, pt) ==
    [number |-> pr.number, state |-> pr.state, draft |-> pr.draft,
     created_at |-> pr.created_at, merged_at |-> pr.merged_at,
     total_files_changed |-> Len(fl),
     total_additions |-> pt.additions,
     total_deletions |-> pt.deletions,
     files |-> fl]

\* Lines 327-348: the two sorts and the result object.
Files_Results(prs, tot, stats, pr_file_details) ==
    [author |-> args.author, start_date |-> args.start_date,
     merged_only |-> args.merged_only, include_draft |-> args.include_draft,
     total_prs |-> Len(prs),
     total_files_changed |-> tot.files_changed,
     total_additions |-> tot.additions,
     total_deletions |-> tot.deletions,
     file_extension_stats |->
        SortDesc([k \in 1..Len(stats) |-> stats[k].count], stats),
     pull_requests |->
        SortDesc([k \in 1..Len(pr_file_details) |-> pr_file_details[k].number],
                 pr_file_details)]


\* The process dies of an uncaught exception: traceback, exit status 1.
Crash(what) ==
    /\ output' = Append(output, what)
    /\ UNCHANGED sorted_commits
    /\ exit_status' = Some(1)
    /\ pc' = "exit"

\* analyze_pr_file_changes, lines 286-350, once get_pr_files returned fl for
\* prs[idx]: the totals, the per-PR record, and after the last PR the result.
\* (Each intermediate value is drawn from a one-element set, which makes TLC
\* compute it once.)
Files_AfterFiles(fl) ==
    \E pr \in {fetched[idx]} :
    \E pt \in {IF fl /= <<>>
               THEN Some([additions |-> SumSeq([k \in 1..Len(fl) |-> fl[k].additions]),
                          deletions |-> SumSeq([k \in 1..Len(fl) |-> fl[k].deletions])])
               ELSE pr_totals} :
    \E tot \in {IF fl /= <<>>
                THEN [files_changed |-> totals.files_changed + Len(fl),
                      additions |-> totals.additions + pt[1].additions,
                      deletions |-> totals.deletions + pt[1].deletions]
                ELSE totals} :
    \E stats \in {IF fl /= <<>> THEN ExtStatsOver(file_extension_stats, fl)
                  ELSE file_extension_stats} :
        /\ totals' = tot
        /\ pr_totals' = pt
        /\ file_extension_stats' = stats
        /\ IF pt = None
           THEN \* pr_additions is read before any assignment: UnboundLocalError
                /\ Crash("UnboundLocalError")
                /\ UNCHANGED <<idx, files, files_page, details, results>>
           ELSE /\ details' = Append(details, Files_Info(pr, fl, pt[1]))
                /\ UNCHANGED <<output, sorted_commits, exit_status>>
                /\ IF idx = Len(fetched)
                   THEN /\ results' = Files_Results(fetched, tot, stats, details')
                        /\ pc' = "report"
                        /\ UNCHANGED <<idx, files, files_page>>
                   ELSE /\ idx' = idx + 1
                        /\ files' = <<>>
                        /\ files_page' = 1
                        /\ pc' = "files"
                        /\ UNCHANGED results

\* One iteration of get_pr_files' while loop (lines 167-209) for prs[idx], and
\* what analyze_pr_file_changes does when get_pr_files returns.
Files_FetchFilesPage ==
    /\ script = "files"
    /\ pc = "files"
    /\ \E pr \in {fetched[idx]} :
       \E d \in {RemoteDetail(pr.number)} :
       LET lo == (files_page - 1) * per_page + 1
           hi == Min(files_page * per_page, Len(d.files))
       IN  \E page_files \in {[k \in 1..(IF hi >= lo THEN hi - lo + 1 ELSE 0) |->
                                FileInfo(d.files[lo + k - 1], args.include_patch)]} :
           \E extended \in {files \o page_files} :
           /\ requests' = Append(requests,
                   [Request("files", files_page, pr.number) EXCEPT !.status = d.status])
           /\ IF d.status /= 200
              THEN \* return []
                   Files_AfterFiles(<<>>)
              ELSE IF page_files = <<>>
              THEN \* break; return files
                   Files_AfterFiles(files)
              ELSE IF ShortPage(page_files)
              THEN Files_AfterFiles(extended)
              ELSE /\ files' = extended
                   /\ files_page' = files_page + 1
                   /\ UNCHANGED <<pc, idx, totals, pr_totals, file_extension_stats,
                                  details, results, output, sorted_commits, exit_status>>
    /\ UNCHANGED <<inputs, since_date, fetchVars>>

\* ------------------------------------------------------- analyze_repo_loc

\* Lines 149-165: the empty test and the initial totals.
LOC_AnalyzeBegin ==
    /\ script = "loc"
    /\ pc = "fetched"
    /\ IF fetched = <<>>
       THEN /\ results' = [author |-> args.author, start_date |-> args.start_date,
                           total_commits |-> 0, total_additions |-> 0,
                           total_deletions |-> 0, total_changes |-> 0,
                           commits |-> <<>>]
            /\ pc' = "report"
            /\ UNCHANGED <<idx, totals, details>>
       ELSE /\ totals' = [files_changed |-> 0, additions |-> 0, deletions |-> 0]
            /\ details' = <<>>
            /\ idx' = 1
            /\ pc' = "stats"
            /\ UNCHANGED results
    /\ UNCHANGED <<inputs, since_date, fetchVars, requests, files, files_page,
                   pr_totals, file_extension_stats, output, sorted_commits, exit_status>>

\* A variant that reads the answer without looking at its status.
CommitStats_Unchecked(d) == [additions |-> d.additions, deletions |-> d.deletions]

\* get_commit_stats (lines 103-117): (0, 0) on a non-200 answer.
CommitStats(d) ==
    IF d.status /= 200 THEN [additions |-> 0, deletions |-> 0]
    ELSE [additions |-> d.additions, deletions |-> d.deletions]

\* One iteration of the for loop of analyze_repo_loc (lines 167-186) with its
\* get_commit_stats request, and after the last commit lines 188-201.
LOC_FetchStats ==
    /\ script = "loc"
    /\ pc = "stats"
    /\ LET commit == fetched[idx]
           d == RemoteDetail(commit.number)
           st == CommitStats(d)
           tot == [totals EXCEPT !.additions = @ + st.additions,
                                 !.deletions = @ + st.deletions]
       IN  /\ requests' = Append(requests,
                   [Request("commit", 1, commit.number) EXCEPT !.status = d.status])
           /\ totals' = tot
           /\ details' = Append(details,
                   [sha |-> commit.number, date |-> commit.created_at,
                    additions |-> st.additions, deletions |-> st.deletions,
                    total_changes |-> st.additions + st.deletions])
           /\ IF idx = Len(fetched)
              THEN /\ results' = [author |-> args.author,
                                  start_date |-> args.start_date,
                                  total_commits |-> Len(fetched),
                                  total_additions |-> tot.additions,
                                  total_deletions |-> tot.deletions,
                                  total_changes |-> tot.additions + tot.deletions,
                                  commits |-> details']
                   /\ pc' = "report"
                   /\ UNCHANGED idx
              ELSE /\ idx' = idx + 1
                   /\ UNCHANGED <<pc, results>>
    /\ UNCHANGED <<inputs, since_date, fetchVars, files, files_page, pr_totals,
                   file_extension_stats, output, sorted_commits, exit_status>>

\* ------------------------------------------------------------------- main

\* The keys print_summary reads from the result object.
PRs_SummaryKeys ==
    {"author", "start_date", "total_prs", "open_prs", "closed_prs",
     "merged_prs", "draft_prs", "pull_requests"}
Files_SummaryKeys ==
    {"author", "start_date", "total_prs", "total_files_changed",
     "total_additions", "total_deletions", "file_extension_stats",
     "pull_requests"}
LOC_SummaryKeys ==
    {"author", "start_date", "total_commits", "total_additions",
     "total_deletions", "total_changes", "commits"}

\* print_summary of the two pull-request scripts reads the result object and
\* prints; it builds no ranking.
PRs_PrintSummary(res) == [results |-> res, sorted_commits |-> sorted_commits]
Files_PrintSummary(res) == [results |-> res, sorted_commits |-> sorted_commits]

\* A variant that ranks with results['commits'].sort(...), in place.
LOC_PrintSummary_InPlace(res) ==
    LET ranked == SortDesc([i \in 1..Len(res.commits) |-> res.commits[i].total_changes],
                           res.commits)
    IN  [results |-> [res EXCEPT !.commits = ranked], sorted_commits |-> ranked]

\* print_summary of the commit script (lines 203-230): sorted() builds a new
\* list, ranked by total_changes (descending), of which the first 10 entries
\* are printed; the result object is only read.
LOC_PrintSummary(res) ==
    [results |-> res,
     sorted_commits |->
        SortDesc([i \in 1..Len(res.commits) |-> res.commits[i].total_changes],
                 res.commits)]

\* main() once analyze_* returned: `if results:` print_summary and a normal
\* end (exit status 0), else "Analysis failed" and sys.exit(1).  A key that
\* print_summary reads and the result lacks raises KeyError.  summary is what
\* print_summary(results) leaves behind.
Report(s, keys, summary) ==
    /\ script = s
    /\ pc = "report"
    /\ IF IsEmptyDict(results)
       THEN /\ output' = Append(output, "failed")
            /\ exit_status' = Some(1)
            /\ pc' = "exit"
            /\ UNCHANGED <<results, sorted_commits>>
       ELSE IF keys \subseteq DOMAIN results
       THEN \E printed \in {summary} :
            /\ results' = printed.results
            /\ sorted_commits' = printed.sorted_commits
            /\ output' = Append(output, "summary")
            /\ exit_status' = Some(0)
            /\ pc' = "exit"
       ELSE /\ Crash("KeyError")
            /\ UNCHANGED results
    /\ UNCHANGED <<inputs, since_date, fetchVars, requests, detailVars>>

PRs_Main == Report("prs", PRs_SummaryKeys, PRs_PrintSummary(results))
Files_Main == Report("files", Files_SummaryKeys, Files_PrintSummary(results))
LOC_Main == Report("loc", LOC_SummaryKeys, LOC_PrintSummary(results))

\* ------------------------------------------------------------------ runs

\* The command lines of a run.  The scripts without the secondary filters,
\* the limit and the patch switch carry the values that switch them off.
PlainArgs ==
    {[author |-> a, start_date |-> d, merged_only |-> FALSE,
      include_draft |-> TRUE, limit |-> None, include_patch |-> FALSE] :
        a \in Authors, d \in StartDates}

\* Every setting of the two filter switches without a limit, and the default
\* switches (merged only, no drafts) with --limit 0, --limit 1 and
\* --include-patch.
FilesArgs ==
    {[author |-> a, start_date |-> d, merged_only |-> m, include_draft |-> g,
      limit |-> None, include_patch |-> FALSE] :
        a \in Authors, d \in StartDates, m \in BOOLEAN, g \in BOOLEAN}
    \cup
    {[author |-> a, start_date |-> d, merged_only |-> TRUE, include_draft |-> FALSE,
      limit |-> l, include_patch |-> p] :
        a \in Authors, d \in ValidStartDates,
        l \in {None, Some(0), Some(1)}, p \in BOOLEAN}

\* The state after the command line is parsed and the analyzer constructed.
\* The remote's list is any list of the script's family; a run whose start
\* date does not parse never reads it, and is given the empty one.
InitWith(s, argset, remotes) ==
    /\ script = s
    /\ args \in argset
    /\ remote \in remotes
    /\ (~StrptimeOk(args.start_date) => remote = <<>>)
    /\ pc = "main"
    /\ since_date = None
    /\ page = 0
    /\ pull_requests = <<>>
    /\ commits = <<>>
    /\ fetched = <<>>
    /\ requests = <<>>
    /\ examined = <<>>
    /\ date_checked = <<>>
    /\ idx = 0
    /\ files = <<>>
    /\ files_page = 0
    /\ totals = [files_changed |-> 0, additions |-> 0, deletions |-> 0]
    /\ pr_totals = None
    /\ file_extension_stats = <<>>
    /\ details = <<>>
    /\ results = EmptyDict
    /\ output = <<>>
    /\ sorted_commits = <<>>
    /\ exit_status = None

\* The remote serves its list most recent first, numbered n, n-1, ..., 1.
InitRun(s, argset, lists) == InitWith(s, argset, {Numbered(l) : l \in lists})

Init ==
    \/ InitRun("prs", PlainArgs, PRLists)
    \/ InitRun("files", FilesArgs, PRFileLists)
    \/ InitRun("loc", PlainArgs, CommitLists)

Next ==
    \/ PRs_AnalyzeStart
    \/ PRs_FetchPage
    \/ PRs_Analyze
    \/ PRs_Main
    \/ Files_AnalyzeStart
    \/ Files_FetchPage
    \/ Files_AnalyzeBegin
    \/ Files_FetchFilesPage
    \/ Files_Main
    \/ LOC_AnalyzeStart
    \/ LOC_FetchPage
    \/ LOC_AnalyzeBegin
    \/ LOC_FetchStats
    \/ LOC_Main

Spec == Init /\ [][Next]_vars

\* ---------------------------------------------------- runs over long lists

\* The runs of the three scripts with a valid start date on a remote whose
\* list takes several pages.  A run is a sequential program: it takes its
\* next step as long as it has one.
LongArgs == {a \in PlainArgs : StrptimeOk(a.start_date)}
LongPRLists ==
    LongLists(OtherRecentPR, {<<>>, <<FullFilesPR>>, <<ManyFilesPR>>,
                              Rep(OtherRecentPR, 37)})
LongCommitLists ==
    LongLists(Commit(<<"A", "b">>, SecondOf2025, StatsOk(3, 1)),
              {<<>>, Rep(Commit(<<"A", "b">>, SecondOf2025, StatsOk(0, 0)), 37)})

InitPages ==
    \/ InitRun("prs", LongArgs, LongPRLists)
    \/ InitRun("files", LongArgs, LongPRLists)
    \/ InitRun("loc", LongArgs, LongCommitLists)

SpecPages == InitPages /\ [][Next]_vars /\ WF_vars(Next)

\* ------------------------------------------------ runs over item details

\* More file records: a second .py file, a dot file, a renamed file in a
\* directory whose name has a dot, and a binary file with two suffixes that
\* is served without patch text and, though not renamed, with a previous
\* filename.
B_py == FileRec(<<"b", ".", "p", "y">>, "modified", 3, 1)
DotEnv == FileRec(<<".", "e", "n", "v">>, "added", 2, 0)
Moved == FileRec(<<"d", ".", "1", "/", "c">>, "renamed", 0, 0)
TarGz ==
    [FileRec(<<"x", ".", "t", ".", "g", "z">>, "removed", 0, 4)
        EXCEPT !.patch = None, !.previous_filename = Some(<<"o">>)]

DetailFileLists == {<<>>, <<A_py, B_py, README>>, <<DotEnv, Moved, TarGz>>}
DetailPRKinds ==
    {PR(<<"A", "b">>, SecondOf2025, TRUE, FALSE, FilesOk(f)) : f \in DetailFileLists}
        \cup {FilesFailPR}
DetailCommitKinds ==
    {Commit(<<"A", "b">>, SecondOf2025, StatsOk(3, 1)),
     Commit(<<"A", "b">>, SecondOf2025, StatsFail)}

\* The identifiers the remote gives its items, in any order: the list
\* endpoint need not serve the items by descending identifier.
IdPool == {3, 12, 45} \cup {45 + k : k \in 1..(MaxItems - 3)}
IdSeqs ==
    {ids \in SeqsUpTo(IdPool, MaxItems) :
        \A i \in 1..Len(ids) : \A j \in 1..Len(ids) : ids[i] = ids[j] => i = j}
NumberedAs(kinds, ids) ==
    [i \in 1..Len(kinds) |-> [kinds[i] EXCEPT !.rec.number = ids[i]]]
DetailRemotes(kinds) ==
    UNION {{NumberedAs(l, ids) : ids \in {s \in IdSeqs : Len(s) = Len(l)}} :
              l \in SeqsUpTo(kinds, MaxItems)}

\* A pull request whose file list takes three pages, every record with its
\* own number of additions, alone and after a pull request with few files.
LongFilesPR ==
    PR(<<"A", "b">>, SecondOf2025, TRUE, FALSE,
       FilesOk([k \in 1..(2 * per_page + 37) |->
                    FileRec(<<"a", ".", "p", "y">>, "modified", k, 0)]))
LongFilesRemotes ==
    {NumberedAs(<<LongFilesPR>>, <<12>>),
     NumberedAs(<<PR(<<"A", "b">>, SecondOf2025, TRUE, FALSE,
                     FilesOk(<<DotEnv, Moved, TarGz>>)), LongFilesPR>>, <<3, 45>>)}

DetailArgs ==
    {[author |-> <<"a", "B">>, start_date |-> <<2025, 1, 1>>,
      merged_only |-> TRUE, include_draft |-> FALSE, limit |-> None,
      include_patch |-> p] : p \in BOOLEAN}

InitDetail ==
    \/ InitWith("prs", {a \in DetailArgs : ~a.include_patch},
                 DetailRemotes({PR(<<"A", "b">>, SecondOf2025, TRUE, FALSE, FilesOk(<<>>))}))
    \/ InitWith("files", DetailArgs,
                 DetailRemotes(DetailPRKinds) \cup LongFilesRemotes)
    \/ InitWith("loc", {a \in DetailArgs : ~a.include_patch},
                 DetailRemotes(DetailCommitKinds))

SpecDetail == InitDetail /\ [][Next]_vars

\* ------------------------------------------------------- runs over logins

\* The characters of a login and every login of at most MaxLoginLen of them.
LoginChars == {"a", "A", "b", "B", "1"}
Logins == UNION {[1..k -> LoginChars] : k \in 1..MaxLoginLen}

\* The runs of the two pull-request scripts, secondary filters off, on a
\* remote holding one pull request above the bound: every login as the
\* author argument against every login as the pull request's author.
LoginArgs ==
    {[author |-> a, start_date |-> <<2025, 1, 1>>, merged_only |-> FALSE,
      include_draft |-> TRUE, limit |-> None, include_patch |-> FALSE] :
        a \in Logins}
LoginLists ==
    {<<PR(l, SecondOf2025, TRUE, FALSE, FilesOk(<<A_py>>))>> : l \in Logins}

InitLogins ==
    \/ InitRun("prs", LoginArgs, LoginLists)
    \/ InitRun("files", LoginArgs, LoginLists)

NextLogins ==
    \/ PRs_AnalyzeStart
    \/ PRs_FetchPage
    \/ PRs_Analyze
    \/ PRs_Main
    \/ Files_AnalyzeStart
    \/ Files_FetchPage
    \/ Files_AnalyzeBegin
    \/ Files_FetchFilesPage
    \/ Files_Main

SpecLogins == InitLogins /\ [][NextLogins]_vars


\* ================================================================ claims

\* ------------------------------------------------- vocabulary of the claims

PRScripts == {"prs", "files"}

\* Seconds from 2024-01-01T00:00:00Z to a UTC timestamp.
EpochSeconds(date, time) ==
    LET y == date[1]
        daysBeforeYear == 365 * (y - 2024) + Cardinality({k \in 2024..(y - 1) : IsLeap(k)})
        daysBeforeMonth == SumSeq([m \in 1..(date[2] - 1) |-> DaysInMonth(y, m)])
        days == daysBeforeYear + daysBeforeMonth + (date[3] - 1)
    IN  days * 86400 + time[1] * 3600 + time[2] * 60 + time[3]

\* The record was created before midnight UTC of the start date.
BelowBound(rec) ==
    EpochSeconds(rec.created_at.date, rec.created_at.time)
        < EpochSeconds(args.start_date, <<0, 0, 0>>)

\* Two logins are the same up to the case of their letters.
SameChar(c, d) == c = d \/ {c, d} = {"a", "A"} \/ {c, d} = {"b", "B"}
SameLogin(l, a) ==
    /\ Len(l) = Len(a)
    /\ \A i \in 1..Len(l) : SameChar(l[i], a[i])

ByAuthor(p) == SameLogin(remote[p].rec.login, args.author)
Below(p) == BelowBound(remote[p].rec)

\* The positions at which an item of the author lies below the bound.
Stops == {p \in 1..Len(remote) : ByAuthor(p) /\ Below(p)}

IsListRequest(r) == r.endpoint \in {"pulls", "commits"}
ListRequests == SelectSeq(requests, IsListRequest)
AllListOk == \A k \in 1..Len(ListRequests) : ListRequests[k].status = 200
ListDone == since_date /= None /\ pc \notin {"main", "list"}
Examined == {examined[j] : j \in 1..Len(examined)}
PageOfPosition(p) == ((p - 1) \div per_page) + 1

\* The secondary filters of the run let the record pass.
PassesSecondary(rec) ==
    /\ args.merged_only => rec.merged_at /= None
    /\ ~args.include_draft => ~rec.draft

Wanted(rec) ==
    SameLogin(rec.login, args.author) /\ ~BelowBound(rec) /\ PassesSecondary(rec)

\* The records among the first n items of the remote that are by the author,
\* at or above the bound and past the secondary filters, in the order served.
Expected(n) == SelectSeq([i \in 1..n |-> remote[i].rec], Wanted)

\* --------------------------------------------------------------------- C1

\* C1 (as stated): in both pull-request fetchers the fetch terminates at the
\* first item whose creation time is below the lower bound, whatever that
\* item's author: no item that follows such an item is examined.
C1_Original ==
    script \in PRScripts =>
        LET below == {p \in 1..Len(remote) : Below(p)}
        IN  \A i \in below : \A j \in 1..Len(examined) : examined[j] <= i

\* C1 (amended): in both pull-request fetchers the items are examined in
\* iteration order; the date is compared on exactly the examined items of the
\* requested author; the fetch terminates at the first item OF THE REQUESTED
\* AUTHOR whose creation time is below the bound: no later item is examined
\* and no further page is requested; an item of another author never ends
\* the scan, whatever its date.
C1_Amended ==
    script \in PRScripts =>
        LET stops == Stops
            hit == {p \in stops : p \in Examined}
        IN  /\ \A j \in 1..Len(examined) : examined[j] = j
            /\ date_checked = SelectSeq(examined, ByAuthor)
            /\ \A p \in stops : \A j \in 1..Len(examined) : examined[j] <= p
            /\ \A p \in hit :
                  /\ pc /= "list"
                  /\ \A k \in 1..Len(ListRequests) :
                        ListRequests[k].page <= PageOfPosition(p)
            /\ (ListDone /\ AllListOk) =>
                  (hit /= {} \/ Len(examined) = Len(remote))

\* A fetch that went past another author's item below the bound and then
\* terminated at an item of the author below the bound.
C1_Witness ==
    /\ script \in PRScripts
    /\ pc = "fetched"
    /\ examined /= <<>>
    /\ ByAuthor(examined[Len(examined)]) /\ Below(examined[Len(examined)])
    /\ \E i \in Examined : ~ByAuthor(i) /\ Below(i)

\* --------------------------------------------------------------------- C2

\* The fetch ended at "return pull_requests" inside the for loop: the last
\* date comparison was on an item below the bound.
EarlyStop ==
    /\ script \in PRScripts
    /\ pc = "fetched"
    /\ date_checked /= <<>>
    /\ Below(date_checked[Len(date_checked)])

\* C2: when a pull-request fetch terminates early at an item below the bound,
\* the returned list holds every item of the author at or above the bound
\* (and past the secondary filters of the run) that precedes the terminating
\* item, those of the terminating item's own page included, and no other.
C2_Claim ==
    EarlyStop => fetched = Expected(date_checked[Len(date_checked)] - 1)

\* --------------------------------------------------------------------- C3

Descending ==
    \A i \in 1..Len(remote) : \A j \in (i + 1)..Len(remote) :
        EpochSeconds(remote[i].rec.created_at.date, remote[i].rec.created_at.time)
            >= EpochSeconds(remote[j].rec.created_at.date, remote[j].rec.created_at.time)

\* C3: for a valid start date and a list served in descending creation order,
\* with the secondary filters off, the fetch returns exactly the items of the
\* author created at or after midnight UTC of the start date.
C3_Claim ==
    (/\ script \in PRScripts
     /\ pc = "fetched"
     /\ AllListOk
     /\ Descending
     /\ ~args.merged_only /\ args.include_draft)
    => fetched = Expected(Len(remote))

\* --------------------------------------------------------------------- C4

\* C4 (as stated): in each of the three pipelines no item by a different
\* author and no item created below the bound is in the returned list.
C4_Original ==
    \A k \in 1..Len(fetched) :
        SameLogin(fetched[k].login, args.author) /\ ~BelowBound(fetched[k])

\* C4 (amended): in the two pull-request pipelines no item by a different
\* author and no item created below the bound is ever in the accumulated or
\* the returned list, whatever pages the remote returns; the commit fetcher
\* compares nothing: it sends author and bound as query parameters and
\* accumulates every record of every page as served.
C4_Amended ==
    /\ script \in PRScripts =>
          /\ \A k \in 1..Len(pull_requests) :
                SameLogin(pull_requests[k].login, args.author)
                    /\ ~BelowBound(pull_requests[k])
          /\ \A k \in 1..Len(fetched) :
                SameLogin(fetched[k].login, args.author) /\ ~BelowBound(fetched[k])
    /\ script = "loc" =>
          /\ examined = <<>> /\ date_checked = <<>>
          /\ commits = [i \in 1..Len(commits) |-> remote[i].rec]
          /\ (pc = "fetched" /\ AllListOk) => fetched = [i \in 1..Len(remote) |-> remote[i].rec]

\* A pull-request fetch that returned items although the remote served items
\* of another author and items of the author below the bound.
C4_Witness ==
    /\ script = "files"
    /\ pc = "fetched"
    /\ fetched /= <<>>
    /\ \E i \in Examined : ~ByAuthor(i)
    /\ \E i \in 1..Len(remote) : ByAuthor(i) /\ Below(i)

\* --------------------------------------------------------------------- C5

\* C5: author matching in the pull-request fetchers is case-insensitive: an
\* examined item is treated as authored by the requested author (its date is
\* compared and, being above the bound, it is returned) exactly when its
\* login and the requested author are equal up to the case of their letters,
\* for every combination of upper and lower case in either value.
C5_Claim ==
    script \in PRScripts =>
        /\ \A j \in 1..Len(examined) :
              (\E k \in 1..Len(date_checked) : date_checked[k] = examined[j])
                  <=> SameLogin(remote[examined[j]].rec.login, args.author)
        /\ (pc = "fetched" /\ AllListOk /\ ~args.merged_only /\ args.include_draft
               /\ \A i \in 1..Len(remote) : ~Below(i)) =>
              fetched = SelectSeq([i \in 1..Len(remote) |-> remote[i].rec],
                                  LAMBDA rec : SameLogin(rec.login, args.author))

\* A fetch matched a login with an author argument that differs from it in
\* the case of both letters.
C5_Witness ==
    /\ script \in PRScripts
    /\ pc = "fetched"
    /\ args.author = <<"A", "b">>
    /\ Len(fetched) = 1
    /\ fetched[1].login = <<"a", "B">>

\* --------------------------------------------------------------------- C6

\* The requests of the files endpoint for pull request n, in order.
FilesRequests(n) ==
    SelectSeq(requests, LAMBDA r : r.endpoint = "files" /\ r.id = n)

\* The pull requests whose file fetch has returned.
FilesFetched ==
    {r.id : r \in {requests[k] : k \in 1..Len(requests)}}
        \ (IF pc = "files" THEN {fetched[idx].number} ELSE {})

\* No early termination happened in the list fetch.
NoEarlyStop == \A p \in Stops : p \notin Examined

\* The number of pages a fetch of n records asks for: the full pages and the
\* page after them.
PagesFor(n) == (n \div per_page) + 1

\* C6: in every paginated fetch without early termination and without error
\* the pages are requested as 1, 2, 3, ..., each exactly once, and when the
\* result has a page with fewer than 100 records the fetch stops right after
\* the first such page; page sizes [100, 100, 37] take exactly 3 requests.
C6_Claim ==
    /\ \A k \in 1..Len(ListRequests) : ListRequests[k].page = k
    /\ (ListDone /\ AllListOk /\ NoEarlyStop /\ Len(remote) % per_page /= 0) =>
          /\ Len(ListRequests) = PagesFor(Len(remote))
          /\ Len(remote) = 2 * per_page + 37 => Len(ListRequests) = 3
    /\ script = "files" => \A i \in 1..Len(remote) :
          LET n == remote[i].rec.number
              d == remote[i].detail
              reqs == FilesRequests(n)
          IN  /\ \A k \in 1..Len(reqs) : reqs[k].page = k
              /\ (n \in FilesFetched /\ d.status = 200
                    /\ Len(d.files) % per_page /= 0) =>
                    /\ Len(reqs) = PagesFor(Len(d.files))
                    /\ Len(d.files) = 2 * per_page + 37 => Len(reqs) = 3

\* A list fetch over pages of 100, 100 and 37 records ended after 3 requests,
\* and so did a file fetch over such pages.
C6_Witness ==
    \/ /\ ListDone /\ AllListOk /\ NoEarlyStop
       /\ Len(remote) = 2 * per_page + 37
       /\ Len(ListRequests) = 3
       /\ script \in {"prs", "loc"}
    \/ /\ script = "files"
       /\ pc = "exit"
       /\ \E i \in 1..Len(remote) :
             /\ Len(remote[i].detail.files) = 2 * per_page + 37
             /\ Len(FilesRequests(remote[i].rec.number)) = 3

\* --------------------------------------------------------------------- C7

\* C7 (pages): when every non-empty page is full and neither early
\* termination nor an error occurs, the fetch issues one request beyond the
\* last full page, and that request returns the empty page; a fetch never
\* asks for more pages than the full pages of its result and one.
C7_Pages ==
    /\ Len(ListRequests) <= PagesFor(Len(remote))
    /\ (ListDone /\ AllListOk /\ NoEarlyStop
          /\ Len(remote) > 0 /\ Len(remote) % per_page = 0) =>
          /\ Len(ListRequests) = (Len(remote) \div per_page) + 1
          /\ ListRequests[Len(ListRequests)].page * per_page > Len(remote)
          /\ (ListRequests[Len(ListRequests)].page - 1) * per_page = Len(remote)
    /\ script = "files" => \A i \in 1..Len(remote) :
          LET n == remote[i].rec.number
              d == remote[i].detail
              reqs == FilesRequests(n)
          IN  /\ Len(reqs) <= PagesFor(Len(d.files))
              /\ (n \in FilesFetched /\ d.status = 200
                    /\ Len(d.files) > 0 /\ Len(d.files) % per_page = 0) =>
                    /\ Len(reqs) = (Len(d.files) \div per_page) + 1
                    /\ (reqs[Len(reqs)].page - 1) * per_page = Len(d.files)

\* C7: C7 (pages) holds throughout, and every fetch terminates: a list fetch
\* that is under way returns, and so does the file fetch of a run.
C7_Claim ==
    /\ []C7_Pages
    /\ (pc = "list") ~> (pc = "fetched")
    /\ (pc = "files") ~> (pc \in {"report", "exit"})

\* A list fetch over full pages only ended on the empty page that follows
\* them.
C7_Witness ==
    /\ ListDone /\ AllListOk /\ NoEarlyStop
    /\ Len(remote) = MaxFullPages * per_page
    /\ Len(ListRequests) = MaxFullPages + 1

\* --------------------------------------------------------------------- C8

\* The total_* fields of the result object of each script.
TotalKeys ==
    CASE script = "prs" -> {"total_prs"}
      [] script = "files" -> {"total_prs", "total_files_changed",
                              "total_additions", "total_deletions"}
      [] script = "loc" -> {"total_commits", "total_additions",
                            "total_deletions", "total_changes"}

\* The item list of a result object.
ItemsOf(res) == IF script = "loc" THEN res.commits ELSE res.pull_requests

\* C8: in each of the three pipelines, when the list fetch yields no items,
\* the analysis returns a non-empty result object whose item list is empty
\* and whose total_* fields are all present and 0, and the run prints its
\* summary and ends with exit status 0, no error being raised.
C8_Claim ==
    (pc = "exit" /\ since_date /= None /\ fetched = <<>>) =>
        /\ ~IsEmptyDict(results)
        /\ ItemsOf(results) = <<>>
        /\ \A key \in TotalKeys : key \in DOMAIN results /\ results[key] = 0
        /\ output = <<"summary">>
        /\ exit_status = Some(0)

\* --------------------------------------------------------------------- C9

\* The list fetch was aborted by a non-200 answer to a page after the first.
FailedAfterFirst ==
    /\ pc = "fetched"
    /\ Len(ListRequests) > 1
    /\ ListRequests[Len(ListRequests)].status /= 200

\* C9 (as stated): a commit list fetch aborted at page k > 1 returns the
\* commits accumulated from pages 1..k-1, whereas an aborted pull-request
\* list fetch returns the empty list.
C9_Original ==
    FailedAfterFirst =>
        IF script = "loc"
        THEN fetched = [i \in 1..((Len(ListRequests) - 1) * per_page) |-> remote[i].rec]
        ELSE fetched = <<>>

\* C9 (amended): a commit list fetch aborted at page k > 1 has accumulated the
\* commits of pages 1..k-1 and returns the empty list, discarding them, as
\* the pull-request list fetch does on a failure.
C9_Amended ==
    (pc = "fetched" /\ ListRequests /= <<>>
        /\ ListRequests[Len(ListRequests)].status /= 200) =>
        /\ fetched = <<>>
        /\ script = "loc" =>
              commits = [i \in 1..((Len(ListRequests) - 1) * per_page) |-> remote[i].rec]

\* A commit list fetch was aborted at page 2 with the commits of page 1
\* accumulated.
C9_Witness ==
    /\ script = "loc"
    /\ FailedAfterFirst
    /\ Len(commits) = per_page
    /\ fetched = <<>>

\* -------------------------------------------------------------------- C10

\* A list request of the run came back with a status other than 200.
ListFailed == \E k \in 1..Len(ListRequests) : ListRequests[k].status /= 200

\* C10: no request is ever retried: once a page request of a list fetch
\* returns a non-200 status it is the last request of the run (no further
\* page request, no per-item detail request), no page is requested twice,
\* and the run ends with an empty item set.
C10_Claim ==
    /\ \A i \in 1..Len(ListRequests) : \A j \in (i + 1)..Len(ListRequests) :
          ListRequests[i].page /= ListRequests[j].page
    /\ ListFailed =>
          /\ IsListRequest(requests[Len(requests)])
          /\ requests[Len(requests)].status /= 200
          /\ \A k \in 1..(Len(requests) - 1) :
                IsListRequest(requests[k]) /\ requests[k].status = 200
          /\ pc \notin {"list", "files", "stats"}
          /\ fetched = <<>>
          /\ pc \in {"report", "exit"} =>
                ~IsEmptyDict(results) /\ ItemsOf(results) = <<>>

\* A run whose third page request failed has ended.
C10_Witness ==
    /\ ListFailed
    /\ Len(requests) = 3
    /\ pc = "exit"

\* -------------------------------------------------------------------- C11

\* The analysis returned a result object.
HasResult == pc \in {"report", "exit"} /\ ~IsEmptyDict(results)

\* The identifiers of the analysed items, in fetch order, and those of the
\* final item list of the result, in its order.
AnalysedIds == [i \in 1..Len(fetched) |-> fetched[i].number]
ResultIds ==
    LET items == ItemsOf(results)
    IN  [i \in 1..Len(items) |->
            IF script = "loc" THEN items[i].sha ELSE items[i].number]

StrictlyDescending(ids) == \A i \in 1..(Len(ids) - 1) : ids[i] > ids[i + 1]
IsPermutation(s, u) ==
    /\ Len(s) = Len(u)
    /\ \A x \in {s[i] : i \in 1..Len(s)} \cup {u[i] : i \in 1..Len(u)} :
          Cardinality({i \in 1..Len(s) : s[i] = x})
              = Cardinality({i \in 1..Len(u) : u[i] = x})

\* C11 (as stated): in all three pipelines the final item list of the result
\* is ordered strictly by descending identifier, whatever the fetch order,
\* and is a permutation of the analysed items.
C11_Original ==
    HasResult =>
        StrictlyDescending(ResultIds) /\ IsPermutation(ResultIds, AnalysedIds)

\* C11 (amended): in the two pull-request pipelines the final item list is
\* ordered strictly by descending number, whatever the fetch order, and is a
\* permutation of the analysed items; the commit pipeline does not sort: its
\* final list holds the analysed commits in fetch order.
C11_Amended ==
    HasResult =>
        IF script \in PRScripts
        THEN StrictlyDescending(ResultIds) /\ IsPermutation(ResultIds, AnalysedIds)
        ELSE ResultIds = AnalysedIds

\* Pull requests fetched as 12, 45, 3 are output as 45, 12, 3.
C11_Witness ==
    /\ script \in PRScripts
    /\ HasResult
    /\ AnalysedIds = <<12, 45, 3>>
    /\ ResultIds = <<45, 12, 3>>

\* -------------------------------------------------------------------- C12

MaxOf(S) == CHOOSE x \in S : \A y \in S : y <= x

\* The file records of the pull requests analysed so far, in order.
RECURSIVE FilesOfFirst(_)
FilesOfFirst(n) ==
    IF n = 0 THEN <<>> ELSE FilesOfFirst(n - 1) \o details[n].files
AnalysedFiles == FilesOfFirst(Len(details))

\* The bucket of a filename as the claim words it: the text from the last
\* '.' of the filename on, "no_extension" when the filename has no '.'.
KeyAfterLastDot(filename) ==
    LET dots == {i \in 1..Len(filename) : filename[i] = "."}
    IN  IF dots = {} THEN <<"no_extension">>
        ELSE SubSeq(filename, MaxOf(dots), Len(filename))

\* The bucket of a filename by the rule of os.path.splitext: the text from
\* the last '.' of the last path component on, provided a character other
\* than '.' precedes that dot in the component; "no_extension" otherwise.
KeyOfLastComponent(filename) ==
    LET n == Len(filename)
        slashes == {i \in 1..n : filename[i] = "/"}
        start == IF slashes = {} THEN 1 ELSE MaxOf(slashes) + 1
        named == {i \in start..n : filename[i] /= "."}
        dots == {i \in start..n : filename[i] = "." /\ \E j \in named : j < i}
    IN  IF dots = {} THEN <<"no_extension">> ELSE SubSeq(filename, MaxOf(dots), n)

\* The breakdown holds one bucket per key of the analysed files, with the
\* number of those files and the sums of their additions and deletions.
BreakdownBy(Key(_), stats, fl) ==
    /\ {stats[k].ext : k \in 1..Len(stats)} = {Key(fl[i].filename) : i \in 1..Len(fl)}
    /\ \A k \in 1..Len(stats) : \A j \in 1..Len(stats) :
          stats[k].ext = stats[j].ext => k = j
    /\ \A k \in 1..Len(stats) :
          LET mine == SelectSeq(fl, LAMBDA f : Key(f.filename) = stats[k].ext)
          IN  /\ stats[k].count = Len(mine)
              /\ stats[k].additions = SumSeq([i \in 1..Len(mine) |-> mine[i].additions])
              /\ stats[k].deletions = SumSeq([i \in 1..Len(mine) |-> mine[i].deletions])

\* The breakdown of the result is the one accumulated, by descending count.
BreakdownSorted ==
    (HasResult /\ "file_extension_stats" \in DOMAIN results) =>
        LET sorted == results.file_extension_stats
        IN  /\ \A k \in 1..(Len(sorted) - 1) : sorted[k].count >= sorted[k + 1].count
            /\ Len(sorted) = Len(file_extension_stats)
            /\ {sorted[k] : k \in 1..Len(sorted)}
                  = {file_extension_stats[k] : k \in 1..Len(file_extension_stats)}

\* C12 (as stated): every file record of every analysed pull request
\* increments exactly one bucket, keyed by the text from the last '.' of its
\* filename or by "no_extension" when the filename has none, by one file and
\* by its additions and deletions; the resulting mapping is ordered by file
\* count descending.
C12_Original ==
    script = "files" =>
        /\ BreakdownBy(KeyAfterLastDot, file_extension_stats, AnalysedFiles)
        /\ BreakdownSorted

\* C12 (amended): as C12, the bucket being the extension os.path.splitext
\* gives: the text from the last '.' of the last path component, the dot
\* included, when a character other than '.' precedes it in that component,
\* and "no_extension" otherwise (dot files, dots in directory names only).
C12_Amended ==
    script = "files" =>
        /\ BreakdownBy(KeyOfLastComponent, file_extension_stats, AnalysedFiles)
        /\ BreakdownSorted

\* a.py +10/-2, b.py +3/-1 and README +1/-0 gave .py: 2, +13/-3 first and
\* no_extension: 1, +1/-0 second.
C12_Witness ==
    /\ script = "files"
    /\ HasResult
    /\ "file_extension_stats" \in DOMAIN results
    /\ results.file_extension_stats =
          <<[ext |-> <<".", "p", "y">>, count |-> 2, additions |-> 13, deletions |-> 3],
            [ext |-> <<"no_extension">>, count |-> 1, additions |-> 1, deletions |-> 0]>>

\* -------------------------------------------------------------------- C13

\* The run died of the exception named.
Raised(what) == \E k \in 1..Len(output) : output[k] = what

\* C13: in the file-change analysis, for every analysed pull request at
\* every position of the list, the per-item total_additions and
\* total_deletions recorded for it are the sums of the additions and the
\* deletions of its own file records: a pull request with an empty file list
\* is recorded with 0 and 0, whatever was processed before it, the first one
\* included.
C13_Claim ==
    script = "files" =>
        /\ \A i \in 1..Len(details) :
              LET fl == details[i].files
              IN  /\ details[i].total_additions
                        = SumSeq([k \in 1..Len(fl) |-> fl[k].additions])
                  /\ details[i].total_deletions
                        = SumSeq([k \in 1..Len(fl) |-> fl[k].deletions])
        /\ ~Raised("UnboundLocalError")
        /\ (pc \in {"report", "exit"} /\ fetched /= <<>>) => Len(details) = Len(fetched)

\* -------------------------------------------------------------------- C14

\* The files request of pull request n is answered with a non-200 status.
FilesRequestFails(n) == RemoteDetail(n).status /= 200

\* C14: in the file-change analysis a non-200 answer to a pull request's
\* files request is not fatal, whichever pull request it hits, the first one
\* included: no error is raised, that pull request is skipped or recorded
\* with zero-valued detail, every other pull request is resolved and
\* aggregated, and the analysis returns its result object.
C14_Claim ==
    (script = "files" /\ fetched /= <<>>) =>
        /\ ~Raised("UnboundLocalError")
        /\ \A i \in 1..Len(details) :
              FilesRequestFails(details[i].number) =>
                  /\ details[i].files = <<>>
                  /\ details[i].total_files_changed = 0
                  /\ details[i].total_additions = 0
                  /\ details[i].total_deletions = 0
        /\ pc \in {"report", "exit"} =>
              /\ ~IsEmptyDict(results)
              /\ \A j \in 1..Len(fetched) :
                    ~FilesRequestFails(fetched[j].number) =>
                        \E i \in 1..Len(details) :
                            /\ details[i].number = fetched[j].number
                            /\ details[i].total_files_changed
                                  = Len(RemoteDetail(fetched[j].number).files)

\* -------------------------------------------------------------------- C15

\* The stats requests of the run, in order.
StatsRequests == SelectSeq(requests, LAMBDA r : r.endpoint = "commit")

\* What the stats of the i-th commit served contribute: the remote's numbers
\* when the stats request is answered with 200, nothing otherwise.
StatsOfServed(i) ==
    IF remote[i].detail.status = 200
    THEN [additions |-> remote[i].detail.additions,
          deletions |-> remote[i].detail.deletions]
    ELSE [additions |-> 0, deletions |-> 0]

ScanEnd ==
    LET stops == Stops
    IN  IF stops = {} THEN Len(remote)
        ELSE CHOOSE p \in stops : \A q \in stops : p <= q

IsCalendarDate(d) ==
    /\ Len(d) = 3
    /\ d[1] \in 1..9999
    /\ d[2] \in 1..12
    /\ d[3] >= 1
    /\ d[3] <= (IF d[2] \in {1, 3, 5, 7, 8, 10, 12} THEN 31
                ELSE IF d[2] /= 2 THEN 30
                ELSE IF d[1] % 400 = 0 \/ (d[1] % 4 = 0 /\ d[1] % 100 /= 0) THEN 29
                ELSE 28)

\* An unparsable start date aborts the analysis before any request: the
\* result is empty, no summary is printed, the exit status is not 0.
AbortsOnBadDate ==
    ~IsCalendarDate(args.start_date) =>
        /\ requests = <<>>
        /\ since_date = None
        /\ pc \in {"main", "report", "exit"}
        /\ IsEmptyDict(results)
        /\ ~Raised("summary")
        /\ pc = "exit" => exit_status /= None /\ exit_status /= Some(0)

\* C17: in each of the three scripts a start date that does not parse as
\* YYYY-MM-DD aborts the analysis before any request is issued: the result
\* structure is empty, no summary is printed and the exit status is not 0;
\* and the exit status is other than 0 only when the result structure is
\* empty.
C17_Claim ==
    /\ AbortsOnBadDate
    /\ (pc = "exit" /\ exit_status /= Some(0)) => IsEmptyDict(results)

\* -------------------------------------------------------------------- C18

\* The pull requests the files endpoint was asked about.
FilesRequestIds ==
    {requests[k].id : k \in {j \in 1..Len(requests) : requests[j].endpoint = "files"}}

\* C18: in the file-change analysis a limit n, any non-negative integer,
\* caps the item count: the number of pull requests analysed, total_prs and
\* the length of the pull_requests list never exceed n, and file requests
\* are issued only for the first n pull requests in fetch order.
C18_Claim ==
    (script = "files" /\ args.limit /= None) =>
        LET n == args.limit[1]
        IN  /\ Len(details) <= n
            /\ pc \in {"files", "report", "exit"} => Len(fetched) <= n
            /\ FilesRequestIds \subseteq
                  {pull_requests[i].number : i \in 1..Min(n, Len(pull_requests))}
            /\ HasResult =>
                  /\ results.total_prs <= n
                  /\ Len(results.pull_requests) <= n

\* -------------------------------------------------------------------- C19

\* The record get_pr_files returned is the record the remote served: the same
\* name, status and counts, the patch text only when include_patch was
\* requested, a previous filename only when the status is renamed.
ReturnedFor(returned, served) ==
    /\ returned.filename = served.filename
    /\ returned.status = served.status
    /\ returned.additions = served.additions
    /\ returned.deletions = served.deletions
    /\ returned.changes = served.changes
    /\ returned.patch /= None => args.include_patch
    /\ args.include_patch => returned.patch = served.patch
    /\ returned.previous_filename /= None => served.status = "renamed"
    /\ served.status = "renamed" =>
          returned.previous_filename = served.previous_filename

\* The first n records returned are the first n records served, in order.
ReturnedInOrder(returned, served, n) ==
    /\ Len(returned) = n
    /\ n <= Len(served)
    /\ \A k \in 1..n : ReturnedFor(returned[k], served[k])

\* C19: when every files request returns 200, get_pr_files returns the
\* concatenation of the file records of all fetched pages, in page order and
\* then in within-page order, each record exactly once; a returned record
\* carries patch text only when include_patch was requested and a previous
\* filename only when its status is renamed.
C19_Claim ==
    script = "files" =>
        /\ pc = "files" =>
              \E d \in {RemoteDetail(fetched[idx].number)} :
                  d.status = 200 =>
                      ReturnedInOrder(files, d.files, (files_page - 1) * per_page)
        /\ \A i \in 1..Len(details) :
              \E d \in {RemoteDetail(details[i].number)} :
                  d.status = 200 =>
                      ReturnedInOrder(details[i].files, d.files, Len(d.files))

\* Without include_patch, the 237 records of a pull request came back in the
\* order served over three pages, none with patch text.
C19_Witness ==
    /\ script = "files"
    /\ ~args.include_patch
    /\ pc = "exit"
    /\ \E i \in 1..Len(details) :
          /\ Len(details[i].files) = 2 * per_page + 37
          /\ details[i].files[2 * per_page + 37].additions = 2 * per_page + 37
          /\ details[i].files[per_page + 1].additions = per_page + 1
          /\ details[i].files[1].patch = None
          /\ Len(FilesRequests(details[i].number)) = 3

\* -------------------------------------------------------------------- C20

IsDetailRequest(r) == r.endpoint \in {"files", "commit"}

\* The requests that start the detail resolution of an item, in order: the
\* stats request of a commit, the request for the first page of the files of
\* a pull request.
DetailStarts == SelectSeq(requests, LAMBDA r : IsDetailRequest(r) /\ r.page = 1)

\* The items that survived filtering and the limit, in fetch order.
Survivors ==
    IF script = "files"
    THEN IF args.limit = None THEN pull_requests
         ELSE Prefix(pull_requests, args.limit[1])
    ELSE fetched

\* C20: data flows one way in every run: every list-page request precedes
\* every per-item detail request and none is issued after the first detail
\* request; detail is requested only for items that survived filtering and
\* the limit; exactly one detail resolution is started per surviving item,
\* in fetch order.
C20_Claim ==
    LET lists == {j \in 1..Len(requests) : IsListRequest(requests[j])}
        dets == {j \in 1..Len(requests) : IsDetailRequest(requests[j])}
        starts == DetailStarts
        items == Survivors
    IN  /\ \A l \in lists : \A d \in dets : l < d
        /\ dets /= {} =>
              /\ pc \in {"files", "stats", "report", "exit"}
              /\ Len(starts) <= Len(items)
              /\ \A k \in 1..Len(starts) : starts[k].id = items[k].number
              /\ \A d \in dets : \E k \in 1..Len(starts) : starts[k].id = requests[d].id
        /\ (script /= "prs" /\ pc \in {"report", "exit"} /\ fetched /= <<>>) =>
              Len(starts) = Len(items)
        /\ script = "prs" => dets = {}

\* -------------------------------------------------------------------- C21

\* The grand totals of a commit analysis result against its commits list.
LOC_TotalsAgree(res) ==
    LET n == Len(res.commits)
    IN  /\ res.total_commits = n
        /\ res.total_additions = SumSeq([i \in 1..n |-> res.commits[i].additions])
        /\ res.total_deletions = SumSeq([i \in 1..n |-> res.commits[i].deletions])
        /\ res.total_changes = res.total_additions + res.total_deletions
        /\ \A i \in 1..n :
              res.commits[i].total_changes =
                  res.commits[i].additions + res.commits[i].deletions

\* The step of main() that prints the summary of the commit script.
LOC_Printing ==
    /\ script = "loc"
    /\ pc = "report"
    /\ ~IsEmptyDict(results)
    /\ pc' = "exit"

\* C21: in the commit analysis result total_additions and total_deletions are
\* the sums of the per-commit additions and deletions, total_changes is
\* total_additions + total_deletions, each commit's total_changes is its
\* additions + deletions, total_commits is the length of the commits list;
\* and printing the summary, top-10 ranking included, leaves the result object
\* and the order of its commits list unchanged.
C21_Claim ==
    /\ []((script = "loc" /\ ~IsEmptyDict(results)) => LOC_TotalsAgree(results))
    /\ [][LOC_Printing => results' = results]_vars

\* A summary was printed for at least two commits with changes whose ranking
\* differs from the order of the commits list.
C21_Witness ==
    /\ script = "loc"
    /\ pc = "exit"
    /\ exit_status = Some(0)
    /\ Len(results.commits) >= 2
    /\ results.total_additions > 0
    /\ results.total_deletions > 0
    /\ sorted_commits /= results.commits
    /\ Len(sorted_commits) = Len(results.commits)

\* -------------------------------------------------------------------- C22

\* The grand totals of a file-change analysis result against the records of
\* its pull_requests list.
Files_TotalsAgree(res) ==
    LET prs == res.pull_requests
        n == Len(prs)
    IN  /\ res.total_prs = n
        /\ res.total_additions = SumSeq([i \in 1..n |-> prs[i].total_additions])
        /\ res.total_deletions = SumSeq([i \in 1..n |-> prs[i].total_deletions])
        /\ res.total_files_changed =
              SumSeq([i \in 1..n |-> prs[i].total_files_changed])

\* C22: in every non-empty result of the file-change analysis the grand
\* totals agree with the per-item records: total_additions, total_deletions
\* and total_files_changed are the sums of the same fields over the
\* pull_requests list, and total_prs is the length of that list.
C22_Claim ==
    (script = "files" /\ HasResult /\ results.pull_requests /= <<>>) =>
        Files_TotalsAgree(results)

\* -------------------------------------------------------------------- C23

\* The state counters of a pull-request analysis result against its list.
PRs_CountersAgree(res) ==
    LET prs == res.pull_requests
        n == Len(prs)
    IN  /\ res.total_prs = n
        /\ res.open_prs + res.closed_prs <= res.total_prs
        /\ res.merged_prs <= res.closed_prs
        /\ res.draft_prs <= res.total_prs
        /\ res.merged_prs =
              Cardinality({i \in 1..n :
                  prs[i].state = "closed" /\ prs[i].merged_at /= None})

\* C23: in every result of the pull-request analysis total_prs is the length
\* of the pull_requests list, open_prs + closed_prs <= total_prs, merged_prs
\* <= closed_prs (a pull request counts as merged only when its state is
\* closed and its merge timestamp is non-null) and draft_prs <= total_prs;
\* the analysis never issues a per-pull-request detail request.
C23_Claim ==
    script = "prs" =>
        /\ HasResult => PRs_CountersAgree(results)
        /\ \A k \in 1..Len(requests) : IsListRequest(requests[k])

\* A summary was printed for a result with a merged pull request and one
\* closed without a merge.
C23_Witness ==
    /\ script = "prs"
    /\ pc = "exit"
    /\ exit_status = Some(0)
    /\ results.merged_prs >= 1
    /\ results.closed_prs > results.merged_prs
    /\ requests /= <<>>

====
